---- MODULE Spec2Model ----
(***************************************************************************)
(* Model of the WorkoutApp component of src/app/index.tsx: the in-memory   *)
(* Program and History (React state holding references to mutable JS       *)
(* objects), the two AsyncStorage blobs, the asynchronous loadData /       *)
(* saveProgram / saveHistory continuations and the event handlers.         *)
(*                                                                         *)
(* JS objects that are shared by reference are kept in heaps:              *)
(*   arrs     the Exercise[] arrays (a Program maps a day to an array ref) *)
(*   exName   the Exercise objects, keyed by their id (one object per id)  *)
(*   weekObjs the WeekHistory objects (a History maps a week to a ref)     *)
(* so that {...program} / {...history} are shallow copies, as in the code. *)
(***************************************************************************)
EXTENDS Integers, Sequences, FiniteSets, TLC

\* ------------------------------------------------------------------ bounds
\* Clock resolution: ticks per day (the code divides milliseconds by 86400000).
TicksPerDay == 2
\* Last tick of the wall clock (ticks since January 1, 00:00).
MaxNow == 1
\* Number of calls of addExercise, removeExercise and recordPerformance that get past
\* their validation; each happens at a later millisecond than the one before.
MaxStamps == 2
\* Largest viewed week the user navigates to (the code has no upper bound).
MaxWeek == 2

\* ------------------------------------------------------------------ constants
DaysPerWeek == 7
\* First reading of the millisecond clock in this session; ids persisted by
\* earlier sessions are older (smaller).
FirstStamp == 10

Null == "null"
\* An absent id (null; the empty string is as falsy).
NoId == <<>>
\* JS numbers: an integer, NaN, or the null JSON.stringify writes for NaN.
Num(n) == [k |-> "num", v |-> n]
NaN == [k |-> "NaN", v |-> 0]
JsonNull == [k |-> "null", v |-> 0]

weekdays == <<"Monday", "Tuesday", "Wednesday", "Thursday", "Friday", "Saturday", "Sunday">>
Weekdays == {weekdays[i] : i \in 1..Len(weekdays)}

\* Days the user opens in the model.
SelDays == {"Monday", "Tuesday"}
\* Weekday of January 1 (Date.getDay(): 0 Sunday .. 6 Saturday).
Jan1Days == {6}
\* Texts typed into the exercise-name field.
NameInputs == {<<>>, <<" ">>, <<"B", " ">>}
\* Texts typed into the sets / reps / weight fields (notes is always empty).
PerfInputs == {[sets |-> <<>>, reps |-> <<"5">>, weight |-> <<>>],
               [sets |-> <<"3">>, reps |-> <<" ">>, weight |-> <<>>],
               [sets |-> <<"4">>, reps |-> <<"8">>, weight |-> <<"2", "0">>],
               [sets |-> <<"x">>, reps |-> <<"0">>, weight |-> <<"-", "5">>]}
\* Arguments of changeWeek (the two chevrons).
Deltas == {-1, 1}

\* ------------------------------------------------------------------ helpers
Range(s) == {s[i] : i \in DOMAIN s}
EmptyFn == [x \in {} |-> 0]
Restrict(f, S) == [x \in (DOMAIN f) \cap S |-> f[x]]
Put(f, k, v) == [x \in (DOMAIN f) \cup {k} |-> IF x = k THEN v ELSE f[x]]
MinOf(S) == CHOOSE x \in S : \A y \in S : x <= y
\* A fresh object reference.
NewRef(used) == MinOf((1..(Cardinality(used) + 1)) \ used)

CeilDiv(a, b) == (a + b - 1) \div b

\* String.prototype.trim over a text given as a sequence of characters.
IsSpace(c) == c = " "
RECURSIVE TrimStart(_)
TrimStart(s) == IF s = <<>> THEN s
                ELSE IF IsSpace(Head(s)) THEN TrimStart(Tail(s)) ELSE s
RECURSIVE TrimEnd(_)
TrimEnd(s) == IF s = <<>> THEN s
              ELSE IF IsSpace(s[Len(s)]) THEN TrimEnd(SubSeq(s, 1, Len(s) - 1)) ELSE s
Trim(s) == TrimEnd(TrimStart(s))

DigitChars == <<"0", "1", "2", "3", "4", "5", "6", "7", "8", "9">>
IsDigit(c) == \E i \in 1..10 : DigitChars[i] = c
DigitVal(c) == (CHOOSE i \in 1..10 : DigitChars[i] = c) - 1
RECURSIVE DigitsPrefix(_)
DigitsPrefix(s) == IF s = <<>> \/ ~IsDigit(Head(s)) THEN <<>>
                   ELSE <<Head(s)>> \o DigitsPrefix(Tail(s))
RECURSIVE DigitsValue(_)
DigitsValue(s) == IF s = <<>> THEN 0
                  ELSE 10 * DigitsValue(SubSeq(s, 1, Len(s) - 1)) + DigitVal(s[Len(s)])
\* parseInt(text): leading white space, an optional sign, then the longest run of digits.
parseInt(text) ==
    LET t == TrimStart(text)
        neg == t # <<>> /\ Head(t) = "-"
        u == IF t # <<>> /\ Head(t) \in {"-", "+"} THEN Tail(t) ELSE t
        ds == DigitsPrefix(u)
    IN IF ds = <<>> THEN NaN
       ELSE IF neg THEN Num(0 - DigitsValue(ds)) ELSE Num(DigitsValue(ds))
\* parseFloat(text) for texts without a fraction or an exponent.
parseFloat(text) == parseInt(text)

\* Number.prototype.toString for a positive integer, as a sequence of digits.
RECURSIVE Digits(_)
Digits(n) == IF n < 10 THEN <<DigitChars[n + 1]>>
             ELSE Digits(n \div 10) \o <<DigitChars[(n % 10) + 1]>>
\* The characters of `week${n}` after the common prefix "week".
WeekKey(n) == Digits(n)
\* a < b in the order Array.prototype.sort gives strings (code units, left to right).
RECURSIVE StrLess(_, _)
StrLess(a, b) == IF b = <<>> THEN FALSE
                 ELSE IF a = <<>> THEN TRUE
                 ELSE IF Head(a) = Head(b) THEN StrLess(Tail(a), Tail(b))
                 ELSE DigitVal(Head(a)) < DigitVal(Head(b))

\* getCurrentWeekNumber at tick t of a year whose January 1 is weekday d.
getCurrentWeekNumber(t, d) == CeilDiv(t + TicksPerDay * (d + 1), DaysPerWeek * TicksPerDay)

VARIABLES
    now,                     \* wall clock: ticks since January 1
    startDay,                \* startOfYear.getDay()
    stamp,                   \* millisecond clock: Date.now() at the next handler call
    disk,                    \* AsyncStorage: key -> Text(blob), Absent or Corrupt
    inflight,                \* setItem calls not yet resolved, oldest first
    loadPc,                  \* position of loadData
    savedProgram,            \* loadData's local
    savedHistory,            \* loadData's local
    program,                 \* useState<Program>: day -> array ref
    history,                 \* useState<History>: week number -> week object ref
    arrs,                    \* heap: array ref -> sequence of exercise ids
    exName,                  \* heap: exercise id -> name
    weekObjs,                \* heap: week object ref -> [order, days]
    currentWeek,             \* useState<number>
    selectedDay,             \* useState<string | null>
    exerciseModalVisible,
    editingExerciseId,
    performanceModalVisible,
    currentExercise,         \* id of the Exercise of the performance form, or NoId
    last                     \* the handler or continuation that ran last, and its arguments

vars == <<now, startDay, stamp, disk, inflight, loadPc, savedProgram, savedHistory,
          program, history, arrs, exName, weekObjs, currentWeek, selectedDay,
          exerciseModalVisible, editingExerciseId, performanceModalVisible,
          currentExercise, last>>

clockVars == <<now, startDay>>
uiVars == <<selectedDay, exerciseModalVisible, editingExerciseId,
            performanceModalVisible, currentExercise>>
loadVars == <<loadPc, savedProgram, savedHistory>>
programVars == <<program, arrs, exName>>
historyVars == <<history, weekObjs>>

\* ------------------------------------------------------------------ JSON
\* JSON.stringify writes a NaN number as null.
JsonNumber(x) == IF x = NaN THEN JsonNull ELSE x
JsonPerformance(e) == [date |-> e.date, sets |-> JsonNumber(e.sets), reps |-> JsonNumber(e.reps),
                       weight |-> JsonNumber(e.weight), notes |-> e.notes]
JsonEntries(s) == [i \in DOMAIN s |-> JsonPerformance(s[i])]
JsonWeek(w) == [order |-> w.order,
                days |-> [d \in DOMAIN w.days |->
                            [x \in DOMAIN w.days[d] |-> JsonEntries(w.days[d][x])]]]
\* JSON.stringify(updatedProgram): the arrays and exercises as they are at the call.
StringifyProgram(p, as, names) ==
    [d \in DOMAIN p |-> [i \in DOMAIN as[p[d]] |-> [id |-> as[p[d]][i], name |-> names[as[p[d]][i]]]]]
\* JSON.stringify(updatedHistory).
StringifyHistory(h, ws) == [w \in DOMAIN h |-> JsonWeek(ws[h[w]])]

DayIndex(d) == CHOOSE i \in 1..Len(weekdays) : weekdays[i] = d
\* JSON.parse of a program blob: a fresh array per day, a fresh Exercise per element.
ParseProgramRefs(blob) == [d \in DOMAIN blob |-> DayIndex(d)]
ParseProgramArrs(blob) == [r \in {DayIndex(d) : d \in DOMAIN blob} |->
                             LET d == weekdays[r] IN [i \in DOMAIN blob[d] |-> blob[d][i].id]]
ParseProgramNames(blob) ==
    LET exs == UNION {Range(blob[d]) : d \in DOMAIN blob}
    IN [x \in {e.id : e \in exs} |-> (CHOOSE e \in exs : e.id = x).name]
\* JSON.parse of a history blob: a fresh week object per week key.
ParseHistoryRefs(blob) == [w \in DOMAIN blob |-> w]
ParseHistoryObjs(blob) == [r \in DOMAIN blob |-> blob[r]]

\* The Program and History that renders and queries read: the state with its
\* references followed.
ProgramView == [d \in DOMAIN program |-> arrs[program[d]]]
HistoryView == [w \in DOMAIN history |-> weekObjs[history[w]]]
Ids(seq) == Range(seq)
\* history[week][day][id], with an absent level read as no entries.
EntriesOf(hv, w, d, x) ==
    IF w \in DOMAIN hv /\ d \in DOMAIN hv[w].days /\ x \in DOMAIN hv[w].days[d]
    THEN hv[w].days[d][x] ELSE <<>>

\* ------------------------------------------------------------------ persisted data of earlier sessions
\* What getItem returns: a text (val), a text JSON.parse rejects, or null.
Text(v) == [st |-> "text", val |-> v]
Absent == [st |-> "absent", val |-> EmptyFn]
Corrupt == [st |-> "corrupt", val |-> EmptyFn]
DiskProgram1 == [d \in Weekdays |->
                   IF d = "Monday" THEN <<[id |-> <<"1">>, name |-> <<"S">>], [id |-> <<"2">>, name |-> <<"R">>]>>
                   ELSE <<>>]
OldEntry(t, s) == [date |-> t, sets |-> Num(s), reps |-> Num(5), weight |-> Num(0), notes |-> <<>>]
OldWeek(t, s) == [order |-> <<"Monday">>,
                  days |-> [d \in {"Monday"} |-> [x \in {<<"1">>} |-> <<OldEntry(t, s)>>]]]
DiskHistory1 == [w \in {3, 12} |-> IF w = 3 THEN OldWeek(3, 3) ELSE OldWeek(4, 4)]
DiskPrograms == {Absent, Corrupt, Text(DiskProgram1)}
DiskHistories == {Absent, Text(DiskHistory1)}

\* ------------------------------------------------------------------ state
\* last: the step taken (op) and how it ended (res); for a handler its day,
\* exercise id, week number and the millisecond of the call (at); for the
\* continuation of a save the handler that issued it (from), how that handler
\* ended (how) and its day, id, week and millisecond.
DidAt(op, res, from, how, day, id, week, at) ==
    [op |-> op, res |-> res, from |-> from, how |-> how, day |-> day, id |-> id,
     week |-> week, at |-> at]
Did(op, res, from, day, id, week) == DidAt(op, res, from, res, day, id, week, 0)
DidSave(op, res, req) == DidAt(op, res, req.from, req.how, req.day, req.id, req.week, req.at)
NoLast == Did("init", Null, Null, Null, NoId, 0)

Init ==
    /\ startDay \in Jan1Days
    /\ now = 0
    /\ stamp = FirstStamp
    /\ disk \in [workoutProgram : DiskPrograms, workoutHistory : DiskHistories]
    /\ inflight = <<>>
    /\ loadPc = "getProgram"
    /\ savedProgram = Absent
    /\ savedHistory = Absent
    /\ program = EmptyFn
    /\ history = EmptyFn
    /\ arrs = EmptyFn
    /\ exName = EmptyFn
    /\ weekObjs = EmptyFn
    /\ currentWeek = getCurrentWeekNumber(now, startDay)
    /\ selectedDay = Null
    /\ exerciseModalVisible = FALSE
    /\ editingExerciseId = NoId
    /\ performanceModalVisible = FALSE
    /\ currentExercise = NoId
    /\ last = NoLast

\* A setItem call in flight: the key, the text, the continuation that awaits it
\* (owner) with the object it will hand to setProgram / setHistory (updated), and
\* the handler call that issued it (from, how, day, id, week, at: the fields of last).
Request(key, text, owner, updated, issuer) ==
    [key |-> key, text |-> text, owner |-> owner, updated |-> updated,
     from |-> issuer.op, how |-> issuer.res, day |-> issuer.day, id |-> issuer.id,
     week |-> issuer.week, at |-> issuer.at]

\* References still reachable from the state or from a pending continuation.
LiveArrs(p, q) == Range(p) \cup UNION {Range(q[i].updated) : i \in {j \in DOMAIN q : q[j].owner = "saveProgram"}}
LiveWeeks(h, q) == Range(h) \cup UNION {Range(q[i].updated) : i \in {j \in DOMAIN q : q[j].owner = "saveHistory"}}
LiveNames(as) == UNION {Range(as[r]) : r \in DOMAIN as}

MaxRef(used) == IF used = {} THEN 0 ELSE CHOOSE x \in used : \A y \in used : y <= x
Shift(f, n) == [x \in DOMAIN f |-> f[x] + n]
ShiftDomain(f, n) == [x \in {y + n : y \in DOMAIN f} |-> f[x - n]]
\* Drop the objects no reference reaches (garbage collection).
CollectArrs(as, p, q) == Restrict(as, LiveArrs(p, q))
CollectNames(names, as) == Restrict(names, LiveNames(as))
CollectWeeks(ws, h, q) == Restrict(ws, LiveWeeks(h, q))

\* ------------------------------------------------------------------ loadData
\* const savedProgram = await AsyncStorage.getItem('workoutProgram')
LoadGetProgram ==
    /\ loadPc = "getProgram"
    /\ \/ /\ savedProgram' = disk.workoutProgram
          /\ loadPc' = "getHistory"
          /\ last' = Did("loadData", "gotProgram", "loadData", Null, NoId, 0)
       \/ /\ loadPc' = "done"
          /\ last' = Did("loadData", "getFailed", "loadData", Null, NoId, 0)
          /\ UNCHANGED savedProgram
    /\ UNCHANGED <<clockVars, stamp, disk, inflight, savedHistory, programVars, historyVars,
                   currentWeek, uiVars>>

\* if (savedHistory) setHistory(JSON.parse(savedHistory)) else await setItem('workoutHistory', '{}'),
\* with q the setItem calls already in flight.
LoadHistoryPart(sh, q) ==
    IF sh.st = "text"
    THEN /\ history' = Shift(ParseHistoryRefs(sh.val), MaxRef(DOMAIN weekObjs))
         /\ weekObjs' = CollectWeeks([r \in DOMAIN weekObjs \cup
                                           DOMAIN ShiftDomain(ParseHistoryObjs(sh.val), MaxRef(DOMAIN weekObjs)) |->
                                        IF r \in DOMAIN weekObjs THEN weekObjs[r]
                                        ELSE ShiftDomain(ParseHistoryObjs(sh.val), MaxRef(DOMAIN weekObjs))[r]],
                                     history', q)
         /\ inflight' = q
         /\ loadPc' = "done"
         /\ last' = Did("loadData", "loaded", "loadData", Null, NoId, 0)
    ELSE /\ last' = Did("loadData", "savingHistory", "loadData", Null, NoId, 0)
         /\ inflight' = Append(q, Request("workoutHistory", Text(EmptyFn), "loadData", EmptyFn,
                                          last'))
         /\ loadPc' = "setHistory"
         /\ UNCHANGED historyVars

\* const savedHistory = await AsyncStorage.getItem('workoutHistory'), and the
\* statements that follow it up to the next await.
LoadGetHistory ==
    /\ loadPc = "getHistory"
    /\ \/ /\ loadPc' = "done"
          /\ last' = Did("loadData", "getFailed", "loadData", Null, NoId, 0)
          /\ UNCHANGED <<savedHistory, programVars, historyVars, inflight>>
       \/ /\ savedHistory' = disk.workoutHistory
          /\ CASE savedProgram.st = "corrupt" ->
                    \* JSON.parse throws: the catch block
                    /\ loadPc' = "done"
                    /\ last' = Did("loadData", "parseFailed", "loadData", Null, NoId, 0)
                    /\ UNCHANGED <<programVars, historyVars, inflight>>
               [] savedProgram.st = "text" ->
                    /\ program' = ParseProgramRefs(savedProgram.val)
                    /\ arrs' = ParseProgramArrs(savedProgram.val)
                    /\ exName' = ParseProgramNames(savedProgram.val)
                    /\ LoadHistoryPart(disk.workoutHistory, inflight)
               [] OTHER ->
                    /\ program' = ParseProgramRefs([d \in Weekdays |-> <<>>])
                    /\ arrs' = ParseProgramArrs([d \in Weekdays |-> <<>>])
                    /\ exName' = EmptyFn
                    /\ last' = Did("loadData", "savingProgram", "loadData", Null, NoId, 0)
                    /\ inflight' = Append(inflight,
                                          Request("workoutProgram",
                                                  Text(StringifyProgram(program', arrs', exName')),
                                                  "loadData", EmptyFn, last'))
                    /\ loadPc' = "setProgram"
                    /\ UNCHANGED historyVars
    /\ UNCHANGED <<clockVars, stamp, disk, savedProgram, currentWeek, uiVars>>

\* await AsyncStorage.setItem('workoutProgram', ...) of loadData resolves or rejects.
LoadSetProgramResolve ==
    /\ loadPc = "setProgram"
    /\ inflight # <<>>
    /\ Head(inflight).owner = "loadData"
    /\ \/ /\ disk' = [disk EXCEPT !.workoutProgram = Head(inflight).text]
          /\ LoadHistoryPart(savedHistory, Tail(inflight))
       \/ /\ inflight' = Tail(inflight)
          /\ loadPc' = "done"
          /\ last' = Did("loadData", "setFailed", "loadData", Null, NoId, 0)
          /\ UNCHANGED <<disk, historyVars>>
    /\ UNCHANGED <<clockVars, stamp, savedProgram, savedHistory, programVars, currentWeek, uiVars>>

\* await AsyncStorage.setItem('workoutHistory', '{}') of loadData resolves or rejects.
LoadSetHistoryResolve ==
    /\ loadPc = "setHistory"
    /\ inflight # <<>>
    /\ Head(inflight).owner = "loadData"
    /\ \/ /\ disk' = [disk EXCEPT !.workoutHistory = Head(inflight).text]
          /\ last' = Did("loadData", "loaded", "loadData", Null, NoId, 0)
       \/ /\ last' = Did("loadData", "setFailed", "loadData", Null, NoId, 0)
          /\ UNCHANGED disk
    /\ inflight' = Tail(inflight)
    /\ loadPc' = "done"
    /\ UNCHANGED <<clockVars, stamp, savedProgram, savedHistory, programVars, historyVars,
                   currentWeek, uiVars>>

\* ------------------------------------------------------------------ saveProgram / saveHistory
\* saveProgram(updatedProgram) up to its await: the text is made at the call.
saveProgram(updated, as, names, issuer) ==
    Request("workoutProgram", Text(StringifyProgram(updated, as, names)), "saveProgram",
            updated, issuer)
saveHistory(updated, ws, issuer) ==
    Request("workoutHistory", Text(StringifyHistory(updated, ws)), "saveHistory",
            updated, issuer)

\* The state after saveProgram's await: setProgram(updatedProgram) when setItem
\* resolved, the catch block (an alert) when it rejected.
ProgramAfterSave(req, ok) == IF ok THEN req.updated ELSE program
HistoryAfterSave(req, ok) == IF ok THEN req.updated ELSE history

SaveProgramResolve ==
    /\ inflight # <<>>
    /\ Head(inflight).owner = "saveProgram"
    /\ \E ok \in BOOLEAN :
          LET req == Head(inflight) IN
          /\ disk' = IF ok THEN [disk EXCEPT !.workoutProgram = req.text] ELSE disk
          /\ program' = ProgramAfterSave(req, ok)
          /\ last' = DidSave("saveProgram", IF ok THEN "saved" ELSE "failed", req)
    /\ inflight' = Tail(inflight)
    /\ arrs' = CollectArrs(arrs, program', inflight')
    /\ exName' = CollectNames(exName, arrs')
    /\ UNCHANGED <<clockVars, stamp, loadVars, historyVars, currentWeek, uiVars>>

SaveHistoryResolve ==
    /\ inflight # <<>>
    /\ Head(inflight).owner = "saveHistory"
    /\ \E ok \in BOOLEAN :
          LET req == Head(inflight) IN
          /\ disk' = IF ok THEN [disk EXCEPT !.workoutHistory = req.text] ELSE disk
          /\ history' = HistoryAfterSave(req, ok)
          /\ last' = DidSave("saveHistory", IF ok THEN "saved" ELSE "failed", req)
    /\ inflight' = Tail(inflight)
    /\ weekObjs' = CollectWeeks(weekObjs, history', inflight')
    /\ UNCHANGED <<clockVars, stamp, loadVars, programVars, currentWeek, uiVars>>

\* ------------------------------------------------------------------ addExercise
\* updatedProgram[selectedDay].findIndex(ex => ex.id === id): 0 stands for -1.
RECURSIVE findIndexFrom(_, _, _)
findIndexFrom(arr, id, i) == IF i > Len(arr) THEN 0
                             ELSE IF arr[i] = id THEN i ELSE findIndexFrom(arr, id, i + 1)
findIndex(arr, id) == findIndexFrom(arr, id, 1)

\* A variant that falls back to creation when the edited id is not in the day.
addExerciseHeap_Fallback(as, names, ref, editing, newId, name) ==
    IF editing # NoId /\ findIndex(as[ref], editing) # 0
    THEN [arrs |-> as, names |-> [names EXCEPT ![as[ref][findIndex(as[ref], editing)]] = name]]
    ELSE [arrs |-> [as EXCEPT ![ref] = Append(@, newId)], names |-> Put(names, newId, name)]
\* The arrays and the Exercise objects after addExercise's if / else: in the edit
\* branch the exercise found is renamed in place (and nothing is done when none
\* is found); otherwise a new exercise is pushed onto the day's array.
addExerciseHeap(as, names, ref, editing, newId, name) ==
    IF editing # NoId
    THEN IF findIndex(as[ref], editing) # 0
         THEN [arrs |-> as, names |-> [names EXCEPT ![as[ref][findIndex(as[ref], editing)]] = name]]
         ELSE [arrs |-> as, names |-> names]
    ELSE [arrs |-> [as EXCEPT ![ref] = Append(@, newId)], names |-> Put(names, newId, name)]
addExerciseRes(arr, editing) ==
    IF editing # NoId THEN (IF findIndex(arr, editing) # 0 THEN "renamed" ELSE "noMatch")
    ELSE "created"

\* A variant that tests the text without trimming it.
addExerciseInvalid_NoTrim(name, day) == name = <<>> \/ day = Null
\* if (!exerciseName.trim() || !selectedDay)
addExerciseInvalid(name, day) == Trim(name) = <<>> \/ day = Null

\* The Save button of the exercise form, with the text of the name field.
AddExercise(name) ==
    /\ exerciseModalVisible
    /\ IF addExerciseInvalid(name, selectedDay)
       THEN /\ last' = Did("addExercise", "invalid", "addExercise", selectedDay, editingExerciseId, 0)
            /\ UNCHANGED <<stamp, inflight, programVars, uiVars>>
       ELSE IF selectedDay \notin DOMAIN program
       THEN \* updatedProgram[selectedDay] is undefined: a TypeError leaves the handler
            /\ last' = Did("addExercise", "threw", "addExercise", selectedDay, editingExerciseId, 0)
            /\ UNCHANGED <<stamp, inflight, programVars, uiVars>>
       ELSE LET ref == program[selectedDay]
                newId == Digits(stamp)
            IN /\ stamp < FirstStamp + MaxStamps
               /\ arrs' = addExerciseHeap(arrs, exName, ref, editingExerciseId, newId, name).arrs
               /\ exName' = addExerciseHeap(arrs, exName, ref, editingExerciseId, newId, name).names
               /\ stamp' = stamp + 1
               /\ last' = DidAt("addExercise", addExerciseRes(arrs[ref], editingExerciseId),
                                "addExercise", Null, selectedDay,
                                IF editingExerciseId = NoId THEN newId ELSE editingExerciseId,
                                0, stamp)
               /\ inflight' = Append(inflight, saveProgram(program, arrs', exName', last'))
               /\ editingExerciseId' = NoId
               /\ exerciseModalVisible' = FALSE
               /\ UNCHANGED <<program, selectedDay, performanceModalVisible, currentExercise>>
    /\ UNCHANGED <<clockVars, disk, loadVars, historyVars, currentWeek>>

\* ------------------------------------------------------------------ removeExercise
\* arr.filter(ex => ex.id !== exerciseId)
RECURSIVE filterOut(_, _)
filterOut(arr, id) == IF arr = <<>> THEN <<>>
                      ELSE IF Head(arr) # id THEN <<Head(arr)>> \o filterOut(Tail(arr), id)
                      ELSE filterOut(Tail(arr), id)

\* The trash icon of a listed exercise.
RemoveExercise(id) ==
    /\ selectedDay # Null
    /\ ~exerciseModalVisible /\ ~performanceModalVisible
    /\ selectedDay \in DOMAIN program
    /\ id \in Range(arrs[program[selectedDay]])
    /\ stamp < FirstStamp + MaxStamps
    /\ stamp' = stamp + 1
    /\ LET ref == NewRef(DOMAIN arrs)
           updatedProgram == [program EXCEPT ![selectedDay] = ref]
       IN /\ arrs' = Put(arrs, ref, filterOut(arrs[program[selectedDay]], id))
          /\ last' = DidAt("removeExercise", "filtered", "removeExercise", Null, selectedDay, id,
                           0, stamp)
          /\ inflight' = Append(inflight, saveProgram(updatedProgram, arrs', exName, last'))
    /\ UNCHANGED <<clockVars, disk, loadVars, program, exName, historyVars, currentWeek, uiVars>>

\* ------------------------------------------------------------------ recordPerformance
\* const weekKey = `week${currentWeek}`
recordWeek == currentWeek

\* if (!sets.trim() || !reps.trim() || !selectedDay || !currentExercise)
recordInvalid(inp, day, ex) ==
    Trim(inp.sets) = <<>> \/ Trim(inp.reps) = <<>> \/ day = Null \/ ex = NoId

newPerformance(inp, t) ==
    [date |-> t, sets |-> parseInt(inp.sets), reps |-> parseInt(inp.reps),
     weight |-> IF inp.weight # <<>> THEN parseFloat(inp.weight) ELSE Num(0), notes |-> <<>>]

EmptyWeek == [order |-> <<>>, days |-> EmptyFn]
\* if (!week[dayKey]) week[dayKey] = {}
withDay(w, d) == IF d \in DOMAIN w.days THEN w
                 ELSE [order |-> Append(w.order, d), days |-> Put(w.days, d, EmptyFn)]
\* if (!week[dayKey][exerciseId]) week[dayKey][exerciseId] = []
withExercise(w, d, x) == IF x \in DOMAIN w.days[d] THEN w
                         ELSE [w EXCEPT !.days[d] = Put(@, x, <<>>)]
\* week[dayKey][exerciseId].push(performance)
pushPerformance(w, d, x, e) ==
    LET w2 == withExercise(withDay(w, d), d, x)
    IN [w2 EXCEPT !.days[d][x] = Append(@, e)]

\* The Save button of the performance form, with the texts of its fields.
RecordPerformance(inp) ==
    /\ performanceModalVisible
    /\ IF recordInvalid(inp, selectedDay, currentExercise)
       THEN /\ last' = Did("recordPerformance", "invalid", "recordPerformance", selectedDay,
                           currentExercise, 0)
            /\ UNCHANGED <<stamp, inflight, historyVars, uiVars>>
       ELSE LET weekKey == recordWeek
                isNew == weekKey \notin DOMAIN history
                ref == IF isNew THEN NewRef(DOMAIN weekObjs) ELSE history[weekKey]
                updatedHistory == Put(history, weekKey, ref)
                week == IF isNew THEN EmptyWeek ELSE weekObjs[ref]
            IN /\ stamp < FirstStamp + MaxStamps
               /\ weekObjs' = Put(weekObjs, ref,
                                  pushPerformance(week, selectedDay, currentExercise,
                                                  newPerformance(inp, stamp)))
               /\ stamp' = stamp + 1
               /\ last' = DidAt("recordPerformance", "recorded", "recordPerformance", Null,
                                selectedDay, currentExercise, weekKey, stamp)
               /\ inflight' = Append(inflight, saveHistory(updatedHistory, weekObjs', last'))
               /\ performanceModalVisible' = FALSE
               /\ currentExercise' = NoId
               /\ UNCHANGED <<history, selectedDay, exerciseModalVisible, editingExerciseId>>
    /\ UNCHANGED <<clockVars, disk, loadVars, programVars, currentWeek>>

\* ------------------------------------------------------------------ getLastPerformance
\* A variant that orders the keys by their week numbers.
RECURSIVE sortReverse_Numeric(_)
sortReverse_Numeric(keys) ==
    IF keys = {} THEN <<>>
    ELSE LET top == CHOOSE k \in keys : \A j \in keys : j <= k
         IN <<top>> \o sortReverse_Numeric(keys \ {top})
\* Object.keys(history).sort().reverse(): the greatest key first.
RECURSIVE sortReverse(_)
sortReverse(keys) ==
    IF keys = {} THEN <<>>
    ELSE LET top == CHOOSE k \in keys : \A j \in keys \ {k} : StrLess(WeekKey(j), WeekKey(k))
         IN <<top>> \o sortReverse(keys \ {top})
\* The inner loop over Object.keys(week): the first day with entries for the id.
RECURSIVE lastInWeek(_, _, _)
lastInWeek(w, dayKeys, id) ==
    IF dayKeys = <<>> THEN <<>>
    ELSE LET day == w.days[Head(dayKeys)]
         IN IF id \in DOMAIN day /\ Len(day[id]) > 0
            THEN <<day[id][Len(day[id])]>>
            ELSE lastInWeek(w, Tail(dayKeys), id)
RECURSIVE lastInWeeks(_, _, _)
lastInWeeks(hv, weekKeys, id) ==
    IF weekKeys = <<>> THEN <<>>
    ELSE LET found == lastInWeek(hv[Head(weekKeys)], hv[Head(weekKeys)].order, id)
         IN IF found # <<>> THEN found ELSE lastInWeeks(hv, Tail(weekKeys), id)
\* <<entry>> for the Performance returned, <<>> for null.
getLastPerformance(id) == lastInWeeks(HistoryView, sortReverse(DOMAIN HistoryView), id)

\* ------------------------------------------------------------------ changeWeek and the views
\* A variant that lets the week reach 0.
changeWeekResult_OffByOne(week, delta) == IF week + delta >= 0 THEN week + delta ELSE week
\* if (newWeek > 0) setCurrentWeek(newWeek)
changeWeekResult(week, delta) == IF week + delta > 0 THEN week + delta ELSE week

ChangeWeek(delta) ==
    /\ selectedDay = Null
    /\ currentWeek + delta <= MaxWeek
    /\ currentWeek' = changeWeekResult(currentWeek, delta)
    /\ last' = Did("changeWeek", IF currentWeek + delta > 0 THEN "moved" ELSE "rejected",
                   "changeWeek", Null, NoId, currentWeek + delta)
    /\ UNCHANGED <<clockVars, stamp, disk, inflight, loadVars, programVars, historyVars, uiVars>>

NoModal == ~exerciseModalVisible /\ ~performanceModalVisible
ListedIds == IF selectedDay # Null /\ selectedDay \in DOMAIN program
             THEN Range(arrs[program[selectedDay]]) ELSE {}

\* onPress of a day card
SelectDay(d) ==
    /\ selectedDay = Null
    /\ selectedDay' = d
    /\ last' = Did("ui", Null, "ui", Null, NoId, 0)
    /\ UNCHANGED <<clockVars, stamp, disk, inflight, loadVars, programVars, historyVars, currentWeek,
                   exerciseModalVisible, editingExerciseId, performanceModalVisible, currentExercise>>
\* the back arrow of the day view
BackToWeek ==
    /\ selectedDay # Null /\ NoModal
    /\ selectedDay' = Null
    /\ last' = Did("ui", Null, "ui", Null, NoId, 0)
    /\ UNCHANGED <<clockVars, stamp, disk, inflight, loadVars, programVars, historyVars, currentWeek,
                   exerciseModalVisible, editingExerciseId, performanceModalVisible, currentExercise>>
\* the + button of the day view
OpenAddExercise ==
    /\ selectedDay # Null /\ NoModal
    /\ editingExerciseId' = NoId
    /\ exerciseModalVisible' = TRUE
    /\ last' = Did("ui", Null, "ui", Null, NoId, 0)
    /\ UNCHANGED <<clockVars, stamp, disk, inflight, loadVars, programVars, historyVars, currentWeek,
                   selectedDay, performanceModalVisible, currentExercise>>
\* editExercise(item): the pencil icon of a listed exercise
EditExercise(id) ==
    /\ NoModal /\ id \in ListedIds
    /\ editingExerciseId' = id
    /\ exerciseModalVisible' = TRUE
    /\ last' = Did("ui", Null, "ui", Null, NoId, 0)
    /\ UNCHANGED <<clockVars, stamp, disk, inflight, loadVars, programVars, historyVars, currentWeek,
                   selectedDay, performanceModalVisible, currentExercise>>
\* Cancel / onRequestClose of the exercise form
CloseExerciseModal ==
    /\ exerciseModalVisible
    /\ exerciseModalVisible' = FALSE
    /\ editingExerciseId' = NoId
    /\ last' = Did("ui", Null, "ui", Null, NoId, 0)
    /\ UNCHANGED <<clockVars, stamp, disk, inflight, loadVars, programVars, historyVars, currentWeek,
                   selectedDay, performanceModalVisible, currentExercise>>
\* openPerformanceModal(item): the Add Effort button of a listed exercise
OpenPerformanceModal(id) ==
    /\ NoModal /\ id \in ListedIds
    /\ currentExercise' = id
    /\ performanceModalVisible' = TRUE
    /\ last' = Did("ui", Null, "ui", Null, NoId, 0)
    /\ UNCHANGED <<clockVars, stamp, disk, inflight, loadVars, programVars, historyVars, currentWeek,
                   selectedDay, exerciseModalVisible, editingExerciseId>>
\* Cancel / onRequestClose of the performance form
ClosePerformanceModal ==
    /\ performanceModalVisible
    /\ performanceModalVisible' = FALSE
    /\ currentExercise' = NoId
    /\ last' = Did("ui", Null, "ui", Null, NoId, 0)
    /\ UNCHANGED <<clockVars, stamp, disk, inflight, loadVars, programVars, historyVars, currentWeek,
                   selectedDay, exerciseModalVisible, editingExerciseId>>

\* The wall clock advances.
Tick ==
    /\ now < MaxNow
    /\ now' = now + 1
    /\ last' = Did("tick", Null, "clock", Null, NoId, 0)
    /\ UNCHANGED <<startDay, stamp, disk, inflight, loadVars, programVars, historyVars, currentWeek,
                   uiVars>>

AllIds == {<<"1">>, <<"2">>} \cup {Digits(t) : t \in FirstStamp..(FirstStamp + MaxStamps)}

Next ==
    \/ LoadGetProgram
    \/ LoadGetHistory
    \/ LoadSetProgramResolve
    \/ LoadSetHistoryResolve
    \/ SaveProgramResolve
    \/ SaveHistoryResolve
    \/ \E name \in NameInputs : AddExercise(name)
    \/ \E id \in AllIds : RemoveExercise(id)
    \/ \E inp \in PerfInputs : RecordPerformance(inp)
    \/ \E delta \in Deltas : ChangeWeek(delta)
    \/ \E d \in SelDays : SelectDay(d)
    \/ BackToWeek
    \/ OpenAddExercise
    \/ \E id \in AllIds : EditExercise(id)
    \/ CloseExerciseModal
    \/ \E id \in AllIds : OpenPerformanceModal(id)
    \/ ClosePerformanceModal
    \/ Tick

Spec == Init /\ [][Next]_vars

\* ================================================================== claims
\* What renders read of the Program: each day's exercises with their names.
ProgramText == StringifyProgram(program, arrs, exName)
AllProgramIds == UNION {Ids(ProgramView[d]) : d \in DOMAIN ProgramView}
IsPrefix(s, t) == Len(s) <= Len(t) /\ \A i \in DOMAIN s : t[i] = s[i]
\* A text that is empty after trimming: nothing but white space.
IsBlank(s) == \A i \in DOMAIN s : s[i] = " "

\* C1: recordPerformance files the new entry under the week key of the wall-clock
\* date at the moment of the call, whatever the viewed week is: right after a
\* recordPerformance that passed validation, the text it handed to setItem holds
\* the new entry (the one dated with the call's millisecond) as the last entry of
\* (calendar week, day, exercise).
C1_FiledUnderCalendarWeek ==
    (last.op = "recordPerformance" /\ last.res = "recorded") =>
        LET req == inflight[Len(inflight)]
            es == EntriesOf(req.text.val, getCurrentWeekNumber(now, startDay), last.day, last.id)
        IN es # <<>> /\ es[Len(es)].date = last.at

\* C2: once loadData has finished, the in-memory Program has all seven weekday
\* keys, whatever the outcome of the initialization.
C2_SevenWeekdays == loadPc = "done" => DOMAIN program = Weekdays

\* C3: when the setItem of addExercise, removeExercise or recordPerformance fails,
\* the in-memory Program / History still contains the attempted change: the
\* exercise created is in its day, the exercise removed is not, the entry recorded
\* is in the sequence of its (week, day, exercise).
C3_NotRolledBack ==
    (last.op \in {"saveProgram", "saveHistory"} /\ last.res = "failed") =>
        CASE last.from = "addExercise" /\ last.how = "created" ->
                last.day \in DOMAIN ProgramView /\ last.id \in Ids(ProgramView[last.day])
          [] last.from = "removeExercise" ->
                last.day \in DOMAIN ProgramView /\ last.id \notin Ids(ProgramView[last.day])
          [] last.from = "recordPerformance" ->
                \E i \in DOMAIN EntriesOf(HistoryView, last.week, last.day, last.id) :
                    EntriesOf(HistoryView, last.week, last.day, last.id)[i].date = last.at
          [] OTHER -> TRUE

\* C4: a validation failure changes nothing: addExercise with a name that is blank
\* after trimming (or no day selected) and recordPerformance with blank sets or
\* reps (or no day, no exercise) leave Program, History, both persisted blobs and
\* the setItem calls in flight as they were, and the form stays open.
C4_ValidationFailureChangesNothing ==
    [][/\ \A name \in NameInputs :
            (AddExercise(name) /\ (IsBlank(name) \/ selectedDay = Null))
                => /\ UNCHANGED <<programVars, historyVars, disk, inflight>>
                   /\ exerciseModalVisible'
       /\ \A inp \in PerfInputs :
            (RecordPerformance(inp)
                /\ (IsBlank(inp.sets) \/ IsBlank(inp.reps) \/ selectedDay = Null
                    \/ currentExercise = NoId))
                => /\ UNCHANGED <<programVars, historyVars, disk, inflight>>
                   /\ performanceModalVisible']_vars
C4_Witness ==
    /\ last.op = "addExercise" /\ last.res = "invalid"
    /\ exerciseModalVisible /\ selectedDay \in DOMAIN program

\* C5: History is append-only: no step removes, reorders or modifies an entry
\* already in History (every sequence of entries is a prefix of what it is after
\* the step), and when the save of a recordPerformance succeeds its entry is the
\* last one of the sequence of its (week, day, exercise).
C5_AppendOnly ==
    [][/\ \A w \in DOMAIN HistoryView : \A d \in DOMAIN HistoryView[w].days :
            \A x \in DOMAIN HistoryView[w].days[d] :
                IsPrefix(HistoryView[w].days[d][x], EntriesOf(HistoryView', w, d, x))
       /\ (last'.op = "saveHistory" /\ last'.res = "saved" /\ last' # last)
            => LET es == EntriesOf(HistoryView', last'.week, last'.day, last'.id)
               IN es # <<>> /\ es[Len(es)].date = last'.at]_vars

\* C6: addExercise with an editingId that matches an exercise of the selected day
\* changes only that exercise's name: at the call, every day's sequence of ids is
\* as before and only the edited exercise's name differs; when its save completes
\* the Program read by renders is as before; History is unchanged throughout.
C6_EditChangesOnlyName ==
    [][/\ \A name \in NameInputs :
            (/\ AddExercise(name) /\ ~IsBlank(name)
             /\ selectedDay \in DOMAIN program
             /\ editingExerciseId # NoId
             /\ editingExerciseId \in Ids(ProgramView[selectedDay]))
                => /\ ProgramView' = ProgramView
                   /\ \A x \in AllProgramIds :
                        exName'[x] = IF x = editingExerciseId THEN name ELSE exName[x]
                   /\ HistoryView' = HistoryView
       /\ (SaveProgramResolve /\ Head(inflight).from = "addExercise"
             /\ Head(inflight).how = "renamed")
                => /\ ProgramText' = ProgramText
                   /\ HistoryView' = HistoryView]_vars

C8_RemoveIsPureFilter ==
    [][(SaveProgramResolve /\ Head(inflight).from = "removeExercise" /\ last'.res = "saved")
         => LET day == Head(inflight).day
                Keep(e) == e.id # Head(inflight).id
            IN /\ ProgramText'[day] = SelectSeq(ProgramText[day], Keep)
               /\ \A d \in DOMAIN ProgramText \ {day} : ProgramText'[d] = ProgramText[d]
               /\ HistoryView' = HistoryView]_vars

\* C9: getLastPerformance(id) returns the last entry of the first day, in the
\* week object's key order, of the week whose key is the greatest as a string
\* among the weeks that hold entries for id ("week3" before "week12"), and null
\* exactly when no week holds any.
HasEntries(w, id) == \E d \in DOMAIN w.days : id \in DOMAIN w.days[d] /\ w.days[d][id] # <<>>
FirstDayWith(w, id) ==
    w.order[CHOOSE i \in DOMAIN w.order :
                /\ EntriesOf([k \in {0} |-> w], 0, w.order[i], id) # <<>>
                /\ \A j \in 1..(i - 1) : EntriesOf([k \in {0} |-> w], 0, w.order[j], id) = <<>>]
C10_ViewedWeekPositive ==
    /\ [](/\ currentWeek >= 1
          /\ \A t \in 0..(DaysPerWeek * TicksPerDay) : \A d \in 0..6 :
                getCurrentWeekNumber(t, d) >= 1)
    /\ [][/\ \A delta \in Deltas :
               ChangeWeek(delta)
                  => /\ currentWeek' = IF currentWeek + delta > 0 THEN currentWeek + delta
                                       ELSE currentWeek
                     /\ UNCHANGED <<programVars, historyVars>>
          /\ currentWeek' # currentWeek => \E delta \in Deltas : ChangeWeek(delta)]_vars
C10_Witness ==
    /\ last.op = "changeWeek" /\ last.res = "rejected" /\ last.week = 0
    /\ currentWeek = 1

\* C11: every entry stored in History, in memory and in the persisted blob, has
\* sets a positive integer, reps a positive integer and weight a number that is
\* not negative; and a recordPerformance whose sets or reps text is not a number
\* stores nothing.
IsNumber(x) == x.k = "num"
WellFormed(e) ==
    /\ IsNumber(e.sets) /\ e.sets.v > 0
    /\ IsNumber(e.reps) /\ e.reps.v > 0
    /\ IsNumber(e.weight) /\ e.weight.v >= 0
AllEntries(hv) ==
    UNION {Range(hv[w].days[d][x]) : <<w, d, x>> \in
              {t \in (DOMAIN hv) \X Weekdays \X AllIds :
                  t[2] \in DOMAIN hv[t[1]].days /\ t[3] \in DOMAIN hv[t[1]].days[t[2]]}}
C11_EntriesWellFormed ==
    /\ \A e \in AllEntries(HistoryView) : WellFormed(e)
    /\ disk.workoutHistory.st = "text" =>
          \A e \in AllEntries(disk.workoutHistory.val) : WellFormed(e)
    /\ \A i \in DOMAIN inflight :
          inflight[i].owner = "saveHistory" =>
              \A e \in AllEntries(inflight[i].text.val) : WellFormed(e)

\* C12: at most one mutation is in flight at any time: the setItem call of at most
\* one addExercise, removeExercise or recordPerformance is unresolved, so none of
\* them begins while an earlier one is still pending.
Mutations(q) == {i \in DOMAIN q : q[i].owner \in {"saveProgram", "saveHistory"}}
C12_OneMutationInFlight == Cardinality(Mutations(inflight)) <= 1

\* C13: a persisted history entry is never lost: every entry of the persisted
\* "workoutHistory" blob is, after any step, still in the blob, under the same
\* week, day and exercise.
PersistedEntries(d, w, day, x) ==
    IF d.workoutHistory.st = "text" THEN Range(EntriesOf(d.workoutHistory.val, w, day, x)) ELSE {}
C13_PersistedEntriesKept ==
    [][disk.workoutHistory.st = "text" =>
          \A w \in DOMAIN disk.workoutHistory.val : \A day \in Weekdays : \A x \in AllIds :
              PersistedEntries(disk, w, day, x) \subseteq PersistedEntries(disk', w, day, x)]_vars

\* C14: no update is lost when mutations overlap: when the saves of two mutations
\* of different exercises, the second issued before the first one's save had
\* resolved, succeed one after the other, the in-memory structure and the
\* persisted blob after the second save reflect both (a removed exercise is not
\* listed, a created one is, a recorded entry is in its sequence).
ProgramReflects(pv, m) ==
    CASE m.from = "removeExercise" -> \A i \in DOMAIN pv[m.day] : pv[m.day][i].id # m.id
      [] m.from = "addExercise" /\ m.how = "created" ->
            \E i \in DOMAIN pv[m.day] : pv[m.day][i].id = m.id
      [] OTHER -> TRUE
HistoryReflects(hv, m) == \E e \in Range(EntriesOf(hv, m.week, m.day, m.id)) : e.date = m.at
C14_NoLostUpdate ==
    [][/\ (/\ SaveProgramResolve
           /\ last.op = "saveProgram" /\ last.res = "saved"
           /\ last'.res = "saved" /\ last.id # Head(inflight).id)
            => /\ ProgramReflects(ProgramText', last) /\ ProgramReflects(ProgramText', last')
               /\ ProgramReflects(disk'.workoutProgram.val, last)
               /\ ProgramReflects(disk'.workoutProgram.val, last')
       /\ (/\ SaveHistoryResolve
           /\ last.op = "saveHistory" /\ last.res = "saved"
           /\ last'.res = "saved")
            => /\ HistoryReflects(HistoryView', last) /\ HistoryReflects(HistoryView', last')
               /\ HistoryReflects(disk'.workoutHistory.val, last)
               /\ HistoryReflects(disk'.workoutHistory.val, last')]_vars

====
